---- MODULE Spec2Model ----
(***************************************************************************)
(* Model of the workplace-reviews topic modeller:                          *)
(*   - the App session (app.py): the "Train model" thread, the status      *)
(*     text, the three gated buttons and the "Save CSV subset" handler;    *)
(*   - the DOCX comment parser (docx_to_csv.py);                           *)
(*   - the sentence splitter and the duplicate comparator (utils.py).      *)
(* Strings are sequences of one-character strings, so that splitting,      *)
(* stripping and comparing are computed the way the Python code does.      *)
(***************************************************************************)
EXTENDS Integers, Sequences, FiniteSets, TLC

VARIABLES
    \* ---- App session (app.py) ----
    model_status_var,   \* self.model_status_var: the status text
    buttons,            \* state of detailed_info / hierarchy / barchart buttons
    model,              \* self.model: None or the id of a TopicModelingPipeline
    df,                 \* self.df: NoAttr until a fit returned, then a table
    heap,               \* the TopicModelingPipeline objects: id -> fitted by
    threads,            \* the training threads: position and locals
    last_op,            \* what the latest reader handler saw and did
    subset_file,        \* the CSV written by "Save CSV subset" (or Absent)
    \* ---- docx_to_csv.py ----
    docx,               \* the paragraphs of the DOCX file
    conv_pc,            \* position of docx_to_csv
    conv_out,           \* outcome of docx_to_csv
    comments_file,      \* the CSV written by docx_to_csv (or Absent)
    \* ---- utils.py ----
    split_in,           \* the comment column read by break_into_sentences
    split_out,          \* what break_into_sentences returned
    dup_in,             \* the two tables read by count_duplicates
    dup_out,            \* what count_duplicates returned
    agg_in,             \* the selected topics and the table given to topic_aggregation
    agg_out,            \* how topic_aggregation ended
    agg_file            \* the CSV at save_path (or Absent)

sessionVars == <<model_status_var, buttons, model, df, heap, threads, last_op,
                 subset_file>>
convVars == <<docx, conv_pc, conv_out, comments_file>>
splitVars == <<split_in, split_out>>
dupVars == <<dup_in, dup_out>>
aggVars == <<agg_in, agg_out, agg_file>>
otherVars == <<convVars, splitVars, dupVars, aggVars>>
vars == <<sessionVars, convVars, splitVars, dupVars, aggVars>>

(***************************************************************************)
(* Characters and strings                                                  *)
(***************************************************************************)
NL == "\n"
SP == " "
Whitespace == {SP, NL, "\t"}
Digits == {"0", "1", "2", "3", "4", "5", "6", "7", "8", "9"}

\* str.strip(): drop leading and trailing whitespace
lstrip(s) ==
    LET solid == {j \in 1..Len(s) : s[j] \notin Whitespace}
    IN  IF solid = {} THEN <<>>
        ELSE SubSeq(s, CHOOSE j \in solid : \A k \in solid : j <= k, Len(s))

rstrip(s) ==
    LET solid == {j \in 1..Len(s) : s[j] \notin Whitespace}
    IN  IF solid = {} THEN <<>>
        ELSE SubSeq(s, 1, CHOOSE j \in solid : \A k \in solid : j >= k)

strip(s) == rstrip(lstrip(s))

\* does the literal lit occur in s at position i
LitAt(s, i, lit) ==
    /\ i + Len(lit) - 1 <= Len(s)
    /\ \A k \in 1..Len(lit) : s[i + k - 1] = lit[k]

\* the first position from i on where the literal lit occurs, 0 if there is none
FindLit(s, lit, i) ==
    LET hits == {j \in i..Len(s) : LitAt(s, j, lit)}
    IN  IF hits = {} THEN 0 ELSE CHOOSE j \in hits : \A k \in hits : j <= k

\* split s on every occurrence of the literal separator sep (re.split / str.split
\* with a literal pattern), scanning left to right from position i
RECURSIVE SplitLit(_, _, _)
SplitLit(s, sep, i) ==
    LET j == FindLit(s, sep, i)
    IN  IF j = 0 THEN <<SubSeq(s, i, Len(s))>>
        ELSE <<SubSeq(s, i, j - 1)>> \o SplitLit(s, sep, j + Len(sep))

(***************************************************************************)
(* App session                                                             *)
(***************************************************************************)
MaxRuns == 2                      \* "Train model" requests in one run of the model
Runs == 1..MaxRuns

NotStarted == "Model not started"
IsTraining == "Model is training..."
TrainingDone == "Model training done."
TrainingFailed == "Model training failed."

None == 0                         \* self.model = None
NoAttr == [kind |-> "NoAttr"]     \* self.df is not set by _init_vars
Absent == [kind |-> "Absent"]     \* no such file

ButtonNames == {"detailed_info_button", "hierarchy_button", "barchart_button"}

\* the topic-labeled table fit_model returns for the CSV that run r read
DigitChar(n) == <<"0", "1", "2", "3", "4", "5", "6", "7", "8", "9">>[n + 1]

FitTable(r) ==
    [i \in 1..3 |-> [comment |-> <<"r", DigitChar(r), "c", DigitChar(i)>>,
                     topics |-> ((i + r) % 3) + 1]]

\* the button state _update_button_states computes from the status text
ButtonStateFor(status) == IF status = TrainingDone THEN "normal" ELSE "disabled"

_update_button_states ==
    buttons' = [b \in ButtonNames |-> ButtonStateFor(model_status_var)]

_is_threadsafe == TRUE

InitSession ==
    /\ model_status_var = NotStarted
    /\ buttons = [b \in ButtonNames |-> ButtonStateFor(NotStarted)]
    /\ model = None
    /\ df = NoAttr
    /\ heap = [r \in Runs |-> [made |-> FALSE, fitted_by |-> 0]]
    /\ threads = [r \in Runs |-> [pc |-> "unborn", target |-> None, msg |-> ""]]
    /\ last_op = [op |-> "none"]
    /\ subset_file = Absent

InFlight(r) == threads[r].pc \notin {"unborn", "finished"}

\* "Train model": set the status text and start a training thread
_run_model(r) ==
    /\ threads[r].pc = "unborn"
    /\ \A q \in Runs : q < r => threads[q].pc /= "unborn"
    /\ model_status_var' = IsTraining
    /\ threads' = [threads EXCEPT ![r].pc = "read_csv"]
    /\ UNCHANGED <<buttons, model, df, heap, last_op, subset_file>>
    /\ UNCHANGED otherVars

\* _start_model_training, lines 297-299: read the CSV and parse the topic count
TrainRead(r) ==
    /\ threads[r].pc = "read_csv"
    /\ \E csv_ok \in BOOLEAN, int_ok \in BOOLEAN :
          threads' = IF csv_ok /\ int_ok
                     THEN [threads EXCEPT ![r].pc = "construct"]
                     ELSE [threads EXCEPT ![r].pc = "set_status",
                                          ![r].msg = TrainingFailed]
    /\ UNCHANGED <<model_status_var, buttons, model, df, heap, last_op, subset_file>>
    /\ UNCHANGED otherVars

\* line 300: self.model = TopicModelingPipeline(nr_topics=...)
TrainConstruct(r) ==
    /\ threads[r].pc = "construct"
    /\ \E ok \in BOOLEAN :
          IF ok
          THEN /\ heap' = [heap EXCEPT ![r] = [made |-> TRUE, fitted_by |-> 0]]
               /\ model' = r
               /\ threads' = [threads EXCEPT ![r].pc = "fit_call"]
          ELSE /\ threads' = [threads EXCEPT ![r].pc = "set_status",
                                             ![r].msg = TrainingFailed]
               /\ UNCHANGED <<heap, model>>
    /\ UNCHANGED <<model_status_var, buttons, df, last_op, subset_file>>
    /\ UNCHANGED otherVars

\* line 301, the call: self.model is evaluated and fit_model starts on it
TrainFitCall(r) ==
    /\ threads[r].pc = "fit_call"
    /\ threads' = [threads EXCEPT ![r].pc = "fit_return", ![r].target = model]
    /\ UNCHANGED <<model_status_var, buttons, model, df, heap, last_op, subset_file>>
    /\ UNCHANGED otherVars

\* line 301, the return: fit_model returns the labeled table (self.df = ...) or raises
TrainFitReturn(r) ==
    /\ threads[r].pc = "fit_return"
    /\ \E ok \in BOOLEAN :
          IF ok
          THEN /\ heap' = [heap EXCEPT ![threads[r].target].fitted_by = r]
               /\ df' = [kind |-> "table", run |-> r, by_model |-> threads[r].target,
                         rows |-> FitTable(r)]
               /\ threads' = [threads EXCEPT ![r].pc = "set_status",
                                             ![r].msg = TrainingDone]
          ELSE /\ threads' = [threads EXCEPT ![r].pc = "set_status",
                                             ![r].msg = TrainingFailed]
               /\ UNCHANGED <<heap, df>>
    /\ UNCHANGED <<model_status_var, buttons, model, last_op, subset_file>>
    /\ UNCHANGED otherVars

\* lines 302/304 -> _update_model_status, line 310: self.model_status_var.set(message)
TrainSetStatus(r) ==
    /\ threads[r].pc = "set_status"
    /\ _is_threadsafe
    /\ model_status_var' = threads[r].msg
    /\ threads' = [threads EXCEPT ![r].pc = "update_buttons"]
    /\ UNCHANGED <<buttons, model, df, heap, last_op, subset_file>>
    /\ UNCHANGED otherVars

\* _update_model_status, line 311: self._update_button_states(); the thread ends
TrainUpdateButtons(r) ==
    /\ threads[r].pc = "update_buttons"
    /\ _update_button_states
    /\ threads' = [threads EXCEPT ![r].pc = "finished"]
    /\ UNCHANGED <<model_status_var, model, df, heap, last_op, subset_file>>
    /\ UNCHANGED otherVars

\* what a handler that dereferences self.model finds there
ModelSeen ==
    [id |-> model, fitted_by |-> IF model = None THEN 0 ELSE heap[model].fitted_by]

\* the three gated handlers call a method of self.model inside try/except:
\* _detailed_info_dataframe (print_details), _hierarchy_reduction
\* (visualise_hierarchy), _bar_chart (visualise_barchart).  A disabled ttk
\* button does not invoke its command.
ModelView(op, button) ==
    /\ buttons[button] = "normal"
    /\ last_op' = [op |-> op, status |-> model_status_var,
                   outcome |-> IF model = None THEN "error_dialog" ELSE "called",
                   read_model |-> TRUE, read_df |-> FALSE,
                   model_seen |-> ModelSeen, df_seen |-> df]
    /\ UNCHANGED <<model_status_var, buttons, model, df, heap, threads, subset_file>>
    /\ UNCHANGED otherVars

_detailed_info_dataframe == ModelView("detailed_info", "detailed_info_button")
_hierarchy_reduction == ModelView("hierarchy", "hierarchy_button")
_bar_chart == ModelView("barchart", "barchart_button")

\* int(token): surrounding whitespace and one sign are allowed, then digits only
DigitVal(c) ==
    CASE c = "0" -> 0 [] c = "1" -> 1 [] c = "2" -> 2 [] c = "3" -> 3 [] c = "4" -> 4
      [] c = "5" -> 5 [] c = "6" -> 6 [] c = "7" -> 7 [] c = "8" -> 8 [] c = "9" -> 9

RECURSIVE DecVal(_)
DecVal(ds) ==
    IF ds = <<>> THEN 0 ELSE 10 * DecVal(SubSeq(ds, 1, Len(ds) - 1)) + DigitVal(ds[Len(ds)])

Unsigned(t) == IF t /= <<>> /\ Head(t) \in {"+", "-"} THEN Tail(t) ELSE t

IsInt(token) ==
    LET d == Unsigned(strip(token))
    IN  d /= <<>> /\ \A k \in 1..Len(d) : d[k] \in Digits

IntOf(token) ==
    LET t == strip(token)
    IN  IF t /= <<>> /\ Head(t) = "-" THEN 0 - DecVal(Unsigned(t)) ELSE DecVal(Unsigned(t))

\* a topic_aggregation that forgets .drop(columns="topics")
topic_aggregation_keep_topics(selected_topics, rows) ==
    SelectSeq(rows, LAMBDA row :
        \E k \in 1..Len(selected_topics) : selected_topics[k] = row.topics)

\* topic_aggregation, lines 104-108: keep the rows whose topics is selected
\* (isin), in their order, and drop the topics column
topic_aggregation(selected_topics, rows) ==
    LET kept == SelectSeq(rows, LAMBDA row :
                    \E k \in 1..Len(selected_topics) : selected_topics[k] = row.topics)
    IN  [i \in 1..Len(kept) |->
            [f \in (DOMAIN kept[i]) \ {"topics"} |-> kept[i][f]]]

\* the texts typed into the selected-topics entry
SelectedTopicInputs ==
    { <<"1", ",", "3">>, <<"2">>, <<"1", ",", SP, "3">>, <<>>,
      <<"1", ",", "x">>, <<"1", ",", ",", "3">> }

\* a parse that skips the tokens int() rejects
parse_selected_topics_lenient(text) ==
    LET tokens == SelectSeq(SplitLit(text, <<",">>, 1), IsInt)
    IN  [ok |-> TRUE, topics |-> [k \in 1..Len(tokens) |-> IntOf(tokens[k])]]

\* line 412: list(map(int, self.selected_topics_var.get().split(","))); the
\* first token int() rejects raises ValueError
parse_selected_topics(text) ==
    LET tokens == SplitLit(text, <<",">>, 1)
    IN  IF \A k \in 1..Len(tokens) : IsInt(tokens[k])
        THEN [ok |-> TRUE, topics |-> [k \in 1..Len(tokens) |-> IntOf(tokens[k])]]
        ELSE [ok |-> FALSE, topics |-> <<>>]

\* "Save CSV subset": the button is never disabled
_csv_subset ==
    /\ \E text \in SelectedTopicInputs :
          LET parsed == parse_selected_topics(text)
              selected_topics == parsed.topics
          IN  IF ~parsed.ok
              THEN /\ last_op' = [op |-> "csv_subset", status |-> model_status_var,
                                  outcome |-> "ValueError", text |-> text,
                                  read_model |-> FALSE, read_df |-> FALSE,
                                  model_seen |-> ModelSeen, df_seen |-> df]
                   /\ UNCHANGED subset_file
              ELSE IF df = NoAttr
              THEN /\ last_op' = [op |-> "csv_subset", status |-> model_status_var,
                                  outcome |-> "AttributeError", text |-> text,
                                  read_model |-> FALSE, read_df |-> TRUE,
                                  model_seen |-> ModelSeen, df_seen |-> df]
                   /\ UNCHANGED subset_file
              ELSE /\ last_op' = [op |-> "csv_subset", status |-> model_status_var,
                                  outcome |-> "saved", text |-> text,
                                  read_model |-> FALSE, read_df |-> TRUE,
                                  model_seen |-> ModelSeen, df_seen |-> df]
                   /\ subset_file' = [kind |-> "csv", topics |-> selected_topics,
                                      rows |-> topic_aggregation(selected_topics, df.rows)]
    /\ UNCHANGED <<model_status_var, buttons, model, df, heap, threads>>
    /\ UNCHANGED otherVars

(***************************************************************************)
(* docx_to_csv.py                                                          *)
(***************************************************************************)
\* line 80: the distribution notice
NOTICE ==
    <<"R", "e", "s", "t", "r", "i", "c", "t", "e", "d", " ", "I", "n", "f", "o", "r",
      "m", "a", "t", "i", "o", "n", " ", "-", " ", "N", "o", "t", " ", "f", "o", "r",
      " ", "F", "u", "r", "t", "h", "e", "r", " ", "D", "i", "s", "t", "r", "i", "b",
      "u", "t", "i", "o", "n">>

NAN == <<"n", "a", "n">>
NO_COMMENT == <<"N", "o", " ", "c", "o", "m", "m", "e", "n", "t">>

\* a replacement that looks for the wrong spelling
df_replace_NaN(value) == IF value = <<"N", "a", "N">> THEN NO_COMMENT ELSE value

\* line 84: df.replace("nan", "No comment") replaces a value that is exactly "nan"
df_replace(value) == IF value = NAN THEN NO_COMMENT ELSE value

\* line 65: comments_pattern = r"Comments: \(\d+\)"
MarkerHead ==
    <<"C", "o", "m", "m", "e", "n", "t", "s", ":", " ", "(">>

\* the number of digits \d+ takes (greedily) from position i on
RECURSIVE DigitRun(_, _)
DigitRun(s, i) == IF i <= Len(s) /\ s[i] \in Digits THEN 1 + DigitRun(s, i + 1) ELSE 0

\* length of the match of comments_pattern that starts at position i, 0 if none
MatchLen(s, i) ==
    IF ~LitAt(s, i, MarkerHead) THEN 0
    ELSE LET d == DigitRun(s, i + Len(MarkerHead))
             close == i + Len(MarkerHead) + d
         IN  IF d >= 1 /\ close <= Len(s) /\ s[close] = ")"
             THEN Len(MarkerHead) + d + 1
             ELSE 0

\* the first position from i on where comments_pattern matches, 0 if there is none
FindMarker(s, i) ==
    LET hits == {j \in i..Len(s) : MatchLen(s, j) > 0}
    IN  IF hits = {} THEN 0 ELSE CHOOSE j \in hits : \A k \in hits : j <= k

\* line 66: re.split(comments_pattern, input_string), scanning from position i
RECURSIVE ReSplit(_, _)
ReSplit(s, i) ==
    LET j == FindMarker(s, i)
    IN  IF j = 0 THEN <<SubSeq(s, i, Len(s))>>
        ELSE <<SubSeq(s, i, j - 1)>> \o ReSplit(s, j + MatchLen(s, j))

\* the data region string_to_df works on: line 71, split_string[1]
DataRegion(split_string) == split_string[2]

\* comment.split(". ", 1)[-1]: the text after the first ". ", or all of it
AfterFirst(s, sep) ==
    LET j == FindLit(s, sep, 1)
    IN  IF j = 0 THEN s ELSE SubSeq(s, j + Len(sep), Len(s))

\* line 79-80: the filter of the list comprehension, on the raw line
KeepLine(comment) == comment /= <<>> /\ comment /= NOTICE

\* lines 71-81: the cleaned value of every kept line of the data region
comment_list_pre(region) ==
    LET data_raw == strip(region)
        comment_list_raw == SplitLit(data_raw, <<NL>>, 1)
        kept == SelectSeq(comment_list_raw, KeepLine)
    IN  [k \in 1..Len(kept) |-> strip(AfterFirst(kept[k], <<".", SP>>))]

\* lines 83-85: the frame, "nan" replaced, empty values dropped
CleanRegion(region) ==
    LET pre == comment_list_pre(region)
        replaced == [k \in 1..Len(pre) |-> df_replace(pre[k])]
    IN  SelectSeq(replaced, LAMBDA c : c /= <<>>)

\* string_to_df without the check of line 68: the last piece is parsed
string_to_df_unchecked(input_string) ==
    LET split_string == ReSplit(input_string, 1)
    IN  [kind |-> "df", rows |-> CleanRegion(split_string[Len(split_string)])]

string_to_df(input_string) ==
    LET split_string == ReSplit(input_string, 1)
    IN  IF Len(split_string) = 1
        THEN [kind |-> "ValueError"]
        ELSE [kind |-> "df", rows |-> CleanRegion(DataRegion(split_string))]

\* read_docx: every paragraph's text followed by a line break
RECURSIVE read_docx(_)
read_docx(paragraphs) ==
    IF paragraphs = <<>> THEN <<>>
    ELSE Head(paragraphs) \o <<NL>> \o read_docx(Tail(paragraphs))

\* the paragraphs a document is made of
P_marker ==
    <<"C", "o", "m", "m", "e", "n", "t", "s", ":", " ", "(", "2", ")">>
P_nan ==
    <<"1", ".", " ", "n", "a", "n">>
P_notice_sp == NOTICE \o <<SP>>
P_numbered ==
    <<"2", ".", " ", "O", "k", ".", " ", "F", "i", "n", "e">>
P_inline ==
    <<"Q", " ", "C", "o", "m", "m", "e", "n", "t", "s", ":", " ", "(", "1", "0", ")",
      " ", "n", "a", "n">>
P_blank_item == <<"3", ".", SP, SP>>
P_no_digits ==
    <<"C", "o", "m", "m", "e", "n", "t", "s", ":", " ", "(", ")">>

Paragraphs ==
    {P_marker, P_nan, NOTICE, P_notice_sp, P_numbered, <<>>, P_inline, P_blank_item,
     P_no_digits}

MaxParas == 3

RECURSIVE SeqsUpTo(_, _)
SeqsUpTo(S, n) ==
    IF n = 0 THEN {<<>>}
    ELSE LET shorter == SeqsUpTo(S, n - 1)
         IN  shorter \cup {Append(q, x) : q \in {p \in shorter : Len(p) = n - 1}, x \in S}

Unreadable == [kind |-> "Unreadable"]      \* Document(file_path) raises
OldCsv == [kind |-> "csv", rows |-> <<<<"o", "l", "d">>>>]

InitConv ==
    /\ docx \in {[kind |-> "docx", paragraphs |-> ps] : ps \in SeqsUpTo(Paragraphs, MaxParas)}
               \cup {Unreadable}
    /\ conv_pc = "start"
    /\ conv_out = [kind |-> "none"]
    /\ comments_file \in {Absent, OldCsv}

\* docx_to_csv(filepath, output_path): read, parse, write the CSV
docx_to_csv ==
    /\ conv_pc = "start"
    /\ conv_pc' = "done"
    /\ IF docx = Unreadable
       THEN /\ conv_out' = [kind |-> "FileError"]
            /\ UNCHANGED comments_file
       ELSE LET parsed == string_to_df(read_docx(docx.paragraphs))
            IN  IF parsed.kind = "ValueError"
                THEN /\ conv_out' = parsed
                     /\ UNCHANGED comments_file
                ELSE /\ conv_out' = [kind |-> "returned", rows |-> parsed.rows]
                     /\ comments_file' = [kind |-> "csv", rows |-> parsed.rows]
    /\ UNCHANGED <<docx, sessionVars, splitVars, dupVars, aggVars>>

(***************************************************************************)
(* utils.py                                                                *)
(***************************************************************************)
\* a missing value (NaN) in a column read by pd.read_csv
NaNCell == <<"<NaN>">>

\* split_sentences_helper: re.split(r"\.", para)
split_sentences_helper(para) == SplitLit(para, <<".">>, 1)

RECURSIVE Flatten(_)
Flatten(lists) == IF lists = <<>> THEN <<>> ELSE Head(lists) \o Flatten(Tail(lists))

\* break_into_sentences, lines 40-50, on the comment column read from the CSV
break_into_sentences(column) ==
    IF \E k \in 1..Len(column) : column[k] = NaNCell
    THEN [kind |-> "TypeError"]          \* re.split on a float
    ELSE LET sentences == [k \in 1..Len(column) |-> split_sentences_helper(column[k])]
             df_exploded == Flatten(sentences)
             after_dropna == SelectSeq(df_exploded, LAMBDA c : c /= NaNCell)
             not_blank == SelectSeq(after_dropna, LAMBDA c : c /= <<SP>>)
         IN  [kind |-> "df", rows |-> [k \in 1..Len(not_blank) |-> strip(not_blank[k])]]

\* the comment values of the CSV files break_into_sentences is given
SplitComments ==
    {<<"a", ".", "b">>, <<"a", ".">>, <<"a", ".", ".", "b">>,
     <<"a", ".", SP, "b">>, <<SP>>, <<"a", ".", SP, SP, ".", "b">>,
     <<".">>, <<"a">>, <<SP, "a", SP, ".">>,
     NaNCell}

MaxComments == 2

InitSplit ==
    /\ split_in \in SeqsUpTo(SplitComments, MaxComments)
    /\ split_out = [kind |-> "none"]

BreakIntoSentences ==
    /\ split_out.kind = "none"
    /\ split_out' = break_into_sentences(split_in)
    /\ UNCHANGED <<split_in, sessionVars, convVars, dupVars, aggVars>>

\* a drop_duplicates that drops nothing
drop_duplicates_keep_all(rows) == rows

\* df.drop_duplicates(subset=["comment"]): the first occurrence of every value
RECURSIVE drop_duplicates(_)
drop_duplicates(rows) ==
    IF rows = <<>> THEN <<>>
    ELSE LET init == drop_duplicates(SubSeq(rows, 1, Len(rows) - 1))
             last == rows[Len(rows)]
         IN  IF \E k \in 1..Len(init) : init[k] = last THEN init ELSE Append(init, last)

\* pd.merge(left, right, on="comment", how="inner"): one row per matching pair
RECURSIVE merge_inner(_, _)
merge_inner(left, right) ==
    IF left = <<>> THEN <<>>
    ELSE LET matches == SelectSeq(right, LAMBDA c : c = Head(left))
         IN  [k \in 1..Len(matches) |-> Head(left)] \o merge_inner(Tail(left), right)

Min2(a, b) == IF a <= b THEN a ELSE b

Max2(a, b) == IF a >= b THEN a ELSE b

\* count_duplicates dividing by the larger of the two deduplicated sizes
count_duplicates_larger(df1, df2) ==
    IF ~df1.has_comment \/ ~df2.has_comment
    THEN [kind |-> "float", num |-> -1, den |-> 100]
    ELSE LET unique_df1 == drop_duplicates(df1.comment)
             unique_df2 == drop_duplicates(df2.comment)
             duplicates == Len(merge_inner(unique_df1, unique_df2))
             larger_len == Max2(Len(unique_df1), Len(unique_df2))
         IN  IF larger_len = 0
             THEN [kind |-> "float", num |-> 0, den |-> 1]
             ELSE [kind |-> "float", num |-> duplicates, den |-> larger_len]

\* count_duplicates dividing by the deduplicated size of the first file
count_duplicates_first(df1, df2) ==
    IF ~df1.has_comment \/ ~df2.has_comment
    THEN [kind |-> "float", num |-> -1, den |-> 100]
    ELSE LET unique_df1 == drop_duplicates(df1.comment)
             unique_df2 == drop_duplicates(df2.comment)
             duplicates == Len(merge_inner(unique_df1, unique_df2))
         IN  IF Len(unique_df1) = 0
             THEN [kind |-> "float", num |-> 0, den |-> 1]
             ELSE [kind |-> "float", num |-> duplicates, den |-> Len(unique_df1)]

\* count_duplicates on the two frames read from the CSV files; a float result
\* (num / den) * 100 is kept as the pair num, den
count_duplicates(df1, df2) ==
    IF ~df1.has_comment \/ ~df2.has_comment
    THEN [kind |-> "float", num |-> -1, den |-> 100]
    ELSE LET unique_df1 == drop_duplicates(df1.comment)
             unique_df2 == drop_duplicates(df2.comment)
             merged == merge_inner(unique_df1, unique_df2)
             duplicates == Len(merged)
             smaller_len == Min2(Len(unique_df1), Len(unique_df2))
         IN  IF smaller_len = 0
             THEN [kind |-> "float", num |-> 0, den |-> 1]
             ELSE [kind |-> "float", num |-> duplicates, den |-> smaller_len]

CommentValues == {"a", "b", "c", "d"}
MaxRows == 3

\* a longer column, of four distinct comments
LongColumn == <<"b", "c", "d", "e">>

Frames ==
    {[has_comment |-> TRUE, comment |-> c] :
        c \in SeqsUpTo(CommentValues, MaxRows) \cup {LongColumn}}
        \cup {[has_comment |-> FALSE, comment |-> <<>>]}

InitDup ==
    /\ dup_in \in Frames \X Frames
    /\ dup_out = [kind |-> "none"]

\* _perform_subset_comparison: count_duplicates on the two chosen files
_perform_subset_comparison ==
    /\ dup_out.kind = "none"
    /\ dup_out' = count_duplicates(dup_in[1], dup_in[2])
    /\ UNCHANGED <<dup_in, sessionVars, convVars, splitVars, aggVars>>

\* the tables and topic lists topic_aggregation is called with
TopicIds == {1, 2, 3}
MaxTableRows == 3
MaxSelected == 2

LabeledRows == [comment : {"x", "y"}, topics : TopicIds]

\* five rows with the topics 1, 2, 3, 1, 2
FiveRows ==
    <<[comment |-> "r1", topics |-> 1], [comment |-> "r2", topics |-> 2],
      [comment |-> "r3", topics |-> 3], [comment |-> "r4", topics |-> 1],
      [comment |-> "r5", topics |-> 2]>>

\* a table that is not the result of a model run: it has no topics column
Unlabeled == [has_topics |-> FALSE, rows |-> <<[comment |-> "x"]>>]

LabeledTables ==
    {[has_topics |-> TRUE, rows |-> t] :
        t \in SeqsUpTo(LabeledRows, MaxTableRows) \cup {FiveRows}}

InitAgg ==
    /\ agg_in \in [selected : SeqsUpTo(TopicIds, MaxSelected),
                   df : LabeledTables \cup {Unlabeled}]
    /\ agg_out = [kind |-> "none"]
    /\ agg_file \in {Absent, OldCsv}

\* topic_aggregation(save_path, selected_topics, df): df["topics"] raises KeyError
\* on a table without that column; otherwise the subset is written to save_path
TopicAggregation ==
    /\ agg_out.kind = "none"
    /\ IF ~agg_in.df.has_topics
       THEN /\ agg_out' = [kind |-> "KeyError"]
            /\ UNCHANGED agg_file
       ELSE /\ agg_out' = [kind |-> "returned"]
            /\ agg_file' = [kind |-> "csv",
                            rows |-> topic_aggregation(agg_in.selected, agg_in.df.rows)]
    /\ UNCHANGED <<agg_in, sessionVars, convVars, splitVars, dupVars>>

FixedSession == InitSession
FixedConv ==
    /\ docx = [kind |-> "docx", paragraphs |-> <<>>]
    /\ conv_pc = "start"
    /\ conv_out = [kind |-> "none"]
    /\ comments_file = Absent
FixedSplit == split_in = <<>> /\ split_out = [kind |-> "none"]
FixedDup ==
    /\ dup_in = <<[has_comment |-> TRUE, comment |-> <<>>],
                  [has_comment |-> TRUE, comment |-> <<>>]>>
    /\ dup_out = [kind |-> "none"]

FixedAgg ==
    /\ agg_in = [selected |-> <<>>, df |-> [has_topics |-> TRUE, rows |-> <<>>]]
    /\ agg_out = [kind |-> "none"]
    /\ agg_file = Absent

Init == InitSession /\ FixedConv /\ FixedSplit /\ FixedDup /\ FixedAgg

Next ==
    \/ \E r \in Runs : _run_model(r)
    \/ \E r \in Runs : TrainRead(r)
    \/ \E r \in Runs : TrainConstruct(r)
    \/ \E r \in Runs : TrainFitCall(r)
    \/ \E r \in Runs : TrainFitReturn(r)
    \/ \E r \in Runs : TrainSetStatus(r)
    \/ \E r \in Runs : TrainUpdateButtons(r)
    \/ _detailed_info_dataframe
    \/ _hierarchy_reduction
    \/ _bar_chart
    \/ _csv_subset

Spec == Init /\ [][Next]_vars

InitConvSpec == InitConv /\ FixedSession /\ FixedSplit /\ FixedDup /\ FixedAgg
NextConv == docx_to_csv
SpecConv == InitConvSpec /\ [][NextConv]_vars

InitSplitSpec == InitSplit /\ FixedSession /\ FixedConv /\ FixedDup /\ FixedAgg
NextSplit == BreakIntoSentences
SpecSplit == InitSplitSpec /\ [][NextSplit]_vars

InitDupSpec == InitDup /\ FixedSession /\ FixedConv /\ FixedSplit /\ FixedAgg
NextDup == _perform_subset_comparison
SpecDup == InitDupSpec /\ [][NextDup]_vars

InitAggSpec == InitAgg /\ FixedSession /\ FixedConv /\ FixedSplit /\ FixedDup
NextAgg == TopicAggregation
SpecAgg == InitAggSpec /\ [][NextAgg]_vars

(***************************************************************************)
(* Properties                                                              *)
(***************************************************************************)
Ran == last_op.op /= "none"

\* C1: the detailed-info, hierarchy, barchart and CSV-subset handlers proceed only
\* when the status is "Model training done."; in any other phase they signal an
\* invalid-state error and read neither self.model nor self.df.
C1_ReadersOnlyWhenReady ==
    (Ran /\ last_op.status /= TrainingDone) =>
        /\ last_op.outcome = "InvalidStateError"
        /\ ~last_op.read_model
        /\ ~last_op.read_df

\* C2: at most one training thread is in flight at any time.
C2_OneTrainingInFlight == Cardinality({r \in Runs : InFlight(r)}) <= 1

\* C3: once the status is "Model training failed.", the session holds no model
\* and no topic-labeled table, neither of an earlier run nor of the failed one.
C3_FailedHoldsNothing ==
    model_status_var = TrainingFailed => (model = None /\ df = NoAttr)

\* C4: a reader that gets hold of the session's model or table finds a model and
\* a table produced by one and the same run: the model of run r, fitted by run r,
\* and the table run r obtained from that model.
C4_ReaderSeesOneRun ==
    (Ran /\ last_op.outcome \in {"called", "saved"}) =>
        /\ last_op.model_seen.id /= None
        /\ last_op.df_seen /= NoAttr
        /\ last_op.df_seen.run = last_op.model_seen.id
        /\ last_op.df_seen.by_model = last_op.model_seen.id
        /\ last_op.model_seen.fitted_by = last_op.model_seen.id

\* some slice of text is "Comments: (", one or more digits, ")"
HasMarker(text) ==
    \E i \in 1..Len(text) :
        /\ LitAt(text, i, MarkerHead)
        /\ \E j \in (i + Len(MarkerHead) + 1)..Len(text) :
              /\ text[j] = ")"
              /\ \A k \in (i + Len(MarkerHead))..(j - 1) : text[k] \in Digits

DocText == read_docx(docx.paragraphs)
Converted == conv_pc = "done" /\ docx.kind = "docx"

\* C5: on a text without a section marker string_to_df raises the format error,
\* and docx_to_csv ends with that error and leaves the output file as it was.
C5_NoMarkerFails ==
    [][(conv_pc = "start" /\ conv_pc' = "done" /\ docx.kind = "docx" /\ ~HasMarker(DocText))
         => (conv_out'.kind = "ValueError" /\ comments_file' = comments_file)]_vars

C5_Witness ==
    /\ Converted
    /\ \E k \in 1..Len(docx.paragraphs) : docx.paragraphs[k] = P_no_digits
    /\ ~HasMarker(DocText)
    /\ conv_out.kind = "ValueError"
    /\ comments_file = OldCsv

\* C6: no record of the table string_to_df returns is the distribution notice.
C6_NoNoticeInOutput ==
    (Converted /\ conv_out.kind = "returned") =>
        \A k \in 1..Len(conv_out.rows) : conv_out.rows[k] /= NOTICE

\* the cleaned values of the candidate lines that are not empty, in line order
CandidateValues ==
    SelectSeq(comment_list_pre(DataRegion(ReSplit(DocText, 1))), LAMBDA c : c /= <<>>)

\* C7: no record of the output is empty or "nan", and a candidate line whose
\* cleaned value is "nan" is the record "No comment" at its place in line order.
C7_NanBecomesNoComment ==
    (Converted /\ conv_out.kind = "returned") =>
        /\ \A k \in 1..Len(conv_out.rows) :
              conv_out.rows[k] /= <<>> /\ conv_out.rows[k] /= NAN
        /\ Len(conv_out.rows) = Len(CandidateValues)
        /\ \A k \in 1..Len(CandidateValues) :
              CandidateValues[k] = NAN => conv_out.rows[k] = NO_COMMENT

C7_Witness ==
    /\ Converted
    /\ conv_out.kind = "returned"
    /\ Len(conv_out.rows) >= 2
    /\ \E k \in 1..Len(CandidateValues) :
          CandidateValues[k] = NAN /\ k >= 2 /\ conv_out.rows[k] = NO_COMMENT
    /\ \E k \in 1..Len(docx.paragraphs) : docx.paragraphs[k] = P_blank_item

\* everything after the first match of the section marker
AfterFirstMarker(text) ==
    LET j == FindMarker(text, 1)
    IN  SubSeq(text, j + MatchLen(text, j), Len(text))

\* C8: the data region is everything after the first section marker, so the
\* lines after a later marker are among the records of the output.
C8_RegionAfterFirstMarker ==
    (Converted /\ conv_out.kind = "returned") =>
        conv_out.rows = CleanRegion(AfterFirstMarker(DocText))

\* C9: break_into_sentences returns no record that is empty or missing.
C9_NoEmptySentence ==
    split_out.kind = "df" =>
        \A k \in 1..Len(split_out.rows) :
            split_out.rows[k] /= <<>> /\ split_out.rows[k] /= NaNCell

Values(column) == {column[k] : k \in 1..Len(column)}
Overlap == Cardinality(Values(dup_in[1].comment) \cap Values(dup_in[2].comment))
Smaller ==
    Min2(Cardinality(Values(dup_in[1].comment)), Cardinality(Values(dup_in[2].comment)))
Compared == dup_out.kind = "float" /\ dup_in[1].has_comment /\ dup_in[2].has_comment

\* C10: count_duplicates returns overlap * 100 / smaller (as num / den * 100:
\* num / den = overlap / smaller), 0.0 when smaller is 0, and so a value
\* between 0 and 100.
C10_OverlapOfSmaller ==
    Compared =>
        /\ dup_out.den > 0
        /\ IF Smaller = 0 THEN dup_out.num = 0
           ELSE dup_out.num * Smaller = Overlap * dup_out.den
        /\ 0 <= dup_out.num /\ dup_out.num <= dup_out.den

C10_Witness ==
    /\ Compared
    /\ dup_in[1].comment = <<"a", "b", "c">>
    /\ dup_in[2].comment = LongColumn
    /\ dup_out.num = 2 /\ dup_out.den = 3

\* C11: a table compared with itself gives 100.0 when it has a row and 0.0 when
\* it has none, whatever rows it repeats.
C11_SelfCompare ==
    (Compared /\ dup_in[1] = dup_in[2]) =>
        IF Len(dup_in[1].comment) = 0
        THEN dup_out.num = 0 /\ dup_out.den > 0
        ELSE dup_out.num = dup_out.den /\ dup_out.den > 0

C11_Witness ==
    /\ Compared
    /\ dup_in[1] = dup_in[2]
    /\ dup_in[1].comment = <<"a", "b", "a">>
    /\ dup_out.num = 2 /\ dup_out.den = 2

\* C14: count_duplicates gives the same result with its two arguments exchanged.
C14_Symmetric ==
    Compared => dup_out = count_duplicates(dup_in[2], dup_in[1])

C14_Witness ==
    /\ Compared
    /\ dup_in[1].comment = <<"a", "a", "b">>
    /\ dup_in[2].comment = <<"b", "c", "d">>
    /\ dup_out.num = 1 /\ dup_out.den = 2
    /\ count_duplicates(dup_in[2], dup_in[1]) = dup_out

\* the pieces of the selected-topics text between its commas
TopicTokens(text) == SplitLit(text, <<",">>, 1)

\* C13: when some token of the selected-topics text is not an integer, the
\* CSV-subset handler fails with the parse error: the table is not read,
\* topic_aggregation is not called and the subset file stays as it was.
C13_MalformedListFails ==
    [][(/\ last_op' /= last_op
        /\ last_op'.op = "csv_subset"
        /\ \E k \in 1..Len(TopicTokens(last_op'.text)) :
              ~IsInt(TopicTokens(last_op'.text)[k]))
         => (/\ last_op'.outcome = "ValueError"
             /\ ~last_op'.read_df
             /\ subset_file' = subset_file)]_vars

C13_Witness ==
    /\ last_op.op = "csv_subset"
    /\ last_op.text = <<"1", ",", "x">>
    /\ last_op.outcome = "ValueError"
    /\ last_op.status = TrainingDone
    /\ df /= NoAttr
    /\ subset_file = Absent

\* the positions of the rows whose topics value is among the selected ids
SelectedRows ==
    {i \in 1..Len(agg_in.df.rows) :
        agg_in.df.rows[i].topics \in Values(agg_in.selected)}

\* the written table is the selected rows, in their order, without topics
IsSubsetOfInput(out) ==
    /\ Len(out) = Cardinality(SelectedRows)
    /\ \A i \in SelectedRows :
          LET pos == Cardinality({j \in SelectedRows : j <= i})
              row == agg_in.df.rows[i]
          IN  /\ DOMAIN out[pos] = (DOMAIN row) \ {"topics"}
              /\ \A f \in DOMAIN out[pos] : out[pos][f] = row[f]

\* C12: topic_aggregation writes exactly the rows whose topics value is selected,
\* without the topics column, otherwise unchanged and in the input's order, and
\* leaves the table it was given as it was.
C12_ExportsSelectedRows ==
    [][(agg_out.kind = "none" /\ agg_out'.kind = "returned")
         => (/\ agg_in' = agg_in
             /\ agg_file'.kind = "csv"
             /\ IsSubsetOfInput(agg_file'.rows))]_vars

C12_Witness ==
    /\ agg_out.kind = "returned"
    /\ agg_in.df.rows = FiveRows
    /\ agg_in.selected = <<1, 3>>
    /\ agg_file.kind = "csv"
    /\ agg_file.rows = <<[comment |-> "r1"], [comment |-> "r3"], [comment |-> "r4"]>>
====
